---- MODULE Spec2Model ----
(***************************************************************************)
(* Model of the CRM front end (static/js/script.js): the customers page    *)
(* (modal form, table, create / update / delete / edit) and the tickets    *)
(* page (customer picker, ticket list, ticket creation), as one state      *)
(* machine driven by user events and by the responses of the requests in   *)
(* flight.                                                                 *)
(*                                                                         *)
(* Text is a sequence of one-character strings, so that escaping and       *)
(* trimming are computed character by character.  Every async handler is   *)
(* split at its network await: one action issues the request, one action   *)
(* per outcome of the response runs the continuation.  `await fetch` and   *)
(* the following `await resp.json()` are one response step: the handler    *)
(* reads and writes nothing between the two.  alert() and confirm() block  *)
(* the event loop, so a handler that calls them is still one atomic step.  *)
(***************************************************************************)
EXTENDS Integers, Sequences, FiniteSets, TLC

VARIABLES
    path,           \* window.location.pathname
    modalDisplay,   \* modal.style.display of #customer-modal
    modalTitle,     \* #modal-title textContent
    form,           \* #customer-form fields: id (hidden), name, email, phone, company
    tableBody,      \* rows of #customers-table-body
    net,            \* requests in flight
    nreq,           \* number of requests issued so far (the next request id is nreq + 1)
    alert,          \* text of the alert() dialog raised by the last step (<<>>: none)
    confirm,        \* answer to the confirm() dialog raised by the last step ("none": no dialog)
    answered,       \* the request whose response the last step handled, with that response
    submitted,      \* whether the last step was the submit handler of the page's form
    shown,          \* history: the response of the list load that was processed last
    latestOk,       \* history: the successful list load with the greatest request id so far
    ticketList,     \* items of #ticket-list
    ticketStatus,   \* #ticket-status: [text, isError]
    tform,          \* #ticket-form fields: customer (select value), issue, priority
    selectOptions,  \* option values of #ticket-customer-select
    theme,          \* dark-mode marker of <html>, localStorage "theme", sidebar marker of <body>
    dash,           \* dashboard: the four KPI slots and the three fetchers
    chart,          \* window.Chart, #resolution-chart, window.resolutionChart, loader scripts
    lf              \* leads & loyalty forms: fields, requests in flight, output panel, alert

\* the state of the customers and tickets pages
pageVars == <<path, modalDisplay, modalTitle, form, tableBody, net, nreq, alert, confirm, answered,
              submitted, shown, latestOk, ticketList, ticketStatus, tform, selectOptions>>

\* the state of the theme controller, the dashboard, the chart and the leads & loyalty forms
shellVars == <<theme, dash, chart, lf>>

vars == <<pageVars, shellVars>>

custVars == <<modalDisplay, modalTitle, form, tableBody>>
tickVars == <<ticketList, ticketStatus, tform, selectOptions>>

(***************************************************************************)
(* Bounds of the model.                                                    *)
(***************************************************************************)
MaxReq == 4      \* requests issued in one page lifetime
MaxList == 2     \* length of a list returned by the server
MaxStrLen == 2   \* length of a customer field in the escaping check

(***************************************************************************)
(* Text.                                                                   *)
(***************************************************************************)
Undefined == <<"undefined">>    \* a missing JSON property

SpecialChars == {"&", "<", ">", "\"", "'"}

\* the replacement table of escapeHTML
Entity(c) ==
    CASE c = "&" -> <<"&", "a", "m", "p", ";">>
      [] c = "<" -> <<"&", "l", "t", ";">>
      [] c = ">" -> <<"&", "g", "t", ";">>
      [] c = "\"" -> <<"&", "q", "u", "o", "t", ";">>
      [] c = "'" -> <<"&", "#", "3", "9", ";">>
      [] OTHER -> <<c>>

RECURSIVE ReplaceAll(_)
ReplaceAll(s) ==
    IF s = <<>> THEN <<>> ELSE Entity(Head(s)) \o ReplaceAll(Tail(s))

\* escapeHTML(str = ''): the default applies to undefined only
escapeHTML(str) == IF str = Undefined THEN <<>> ELSE ReplaceAll(str)

\* v || '' on a string or a missing property
OrEmpty(v) == IF v = Undefined \/ v = <<>> THEN <<>> ELSE v

\* a value interpolated into a template literal
Str(v) == IF v = Undefined THEN <<"undefined">> ELSE v

\* JavaScript truthiness of a string or a missing property
Truthy(v) == v # Undefined /\ v # <<>>

\* the lists of at most MaxList records that alternate between a and b
Alternating(a, b) ==
    {[i \in 1..n |-> IF i % 2 = 1 THEN a ELSE b] : n \in 0..MaxList}

\* the texts of at most n characters of S
SeqsUpTo(S, n) == UNION {[1..k -> S] : k \in 0..n}

(***************************************************************************)
(* What the server may answer.                                             *)
(***************************************************************************)
Cust1 == [id |-> <<"1">>, name |-> <<"a">>, email |-> <<"e">>,
          phone |-> Undefined, company |-> <<"&">>]
Cust2 == [id |-> <<"2">>, name |-> <<"<">>, email |-> <<"e">>,
          phone |-> <<"7">>, company |-> Undefined]
CustomerPool == {Cust1, Cust2}

\* the customer lists GET /api/customers may return
CustomerLists == Alternating(Cust1, Cust2) \cup Alternating(Cust2, Cust1)
NoCust == [id |-> Undefined, name |-> Undefined, email |-> Undefined,
           phone |-> Undefined, company |-> Undefined]

\* field values for the escaping check: every text of at most MaxStrLen
\* characters over the five special characters, a letter and a semicolon, and
\* the missing property
EscapeChars == SpecialChars \cup {"a", ";"}
EscapeValues == SeqsUpTo(EscapeChars, MaxStrLen) \cup {Undefined}

\* customer records that put each of these values in each field in turn
EscapeCustomers ==
    {[Cust1 EXCEPT ![f] = v] : f \in DOMAIN Cust1, v \in EscapeValues}
EscapeLists == {<<c>> : c \in EscapeCustomers}

ErrTexts == {<<"has open tickets">>}

\* a response body: unparsable, a JSON array, or a JSON object
NoBody == [kind |-> "unparsable", items |-> <<>>, error |-> Undefined,
           cust |-> NoCust, ticket_id |-> Undefined]
ArrayBody(items) == [NoBody EXCEPT !.kind = "array", !.items = items]
ObjectBody(err) == [NoBody EXCEPT !.kind = "object", !.error = err]
CustBody(c) == [NoBody EXCEPT !.kind = "object", !.cust = c]
TicketIdBody(t) == [NoBody EXCEPT !.kind = "object", !.ticket_id = t]

\* fetch rejects (network failure) or resolves with a status and a body
NetErr == [type |-> "neterr", ok |-> FALSE, statusText |-> <<>>, body |-> NoBody]
Http(ok, st, body) == [type |-> "http", ok |-> ok, statusText |-> st, body |-> body]
NoResp == [type |-> "none", ok |-> FALSE, statusText |-> <<>>, body |-> NoBody]

\* the promise of resp.json() rejects
ParseFails(resp) == resp.body.kind = "unparsable"

ErrorBodies == {NoBody, ObjectBody(Undefined)} \cup {ObjectBody(m) : m \in ErrTexts}

FailResponses == {NetErr} \cup {Http(FALSE, <<"Bad Request">>, b) : b \in ErrorBodies}

\* failures of a GET whose handler throws on !ok before it reads the body
GetFailResponses == {NetErr, Http(FALSE, <<"Not Found">>, ObjectBody(Undefined))}

CustomerListResponses(lists) ==
    GetFailResponses
    \cup {Http(TRUE, <<"OK">>, ArrayBody(l)) : l \in lists}
    \cup {Http(TRUE, <<"OK">>, NoBody), Http(TRUE, <<"OK">>, ObjectBody(Undefined))}

MutationResponses ==
    FailResponses \cup {Http(TRUE, <<"OK">>, ObjectBody(Undefined)), Http(TRUE, <<"OK">>, NoBody)}

EditResponses ==
    GetFailResponses
    \cup {Http(TRUE, <<"OK">>, CustBody(c)) : c \in CustomerPool}
    \cup {Http(TRUE, <<"OK">>, NoBody)}

(***************************************************************************)
(* Requests.                                                               *)
(***************************************************************************)
NoPayload == [name |-> Undefined, email |-> Undefined, phone |-> Undefined,
              company |-> Undefined]

\* kind names the handler that waits for the response; urlId is the customer
\* id the handler appended to the url
Request(rid, kind, method, url, urlId, body) ==
    [rid |-> rid, kind |-> kind, method |-> method, url |-> url, urlId |-> urlId,
     body |-> body]

\* a handled response: the kind and method of the request, and the response
\* without the payload of its body
Answer(r, resp) ==
    [kind |-> r.kind, method |-> r.method,
     resp |-> [resp EXCEPT !.body.items = <<>>, !.body.cust = NoCust]]
NoAnswer == [kind |-> "none", method |-> "", resp |-> NoResp]

\* mutations in flight whose success issues a list reload
Pending == Cardinality({r \in net : r.kind \in {"submit", "delete", "tsubmit"}})

\* room for n more requests, keeping one request id for every reload to come
CanIssue(n) == nreq + Pending + n <= MaxReq

(***************************************************************************)
(* Customers page: rendering of the table.                                 *)
(***************************************************************************)
TextRow(kind, text) ==
    [kind |-> kind, text |-> text, name |-> <<>>, email |-> <<>>, phone |-> <<>>,
     company |-> <<>>, editId |-> <<>>, deleteId |-> <<>>]

LoadingRow == TextRow("loading", "Loading...")
NoCustomersRow == TextRow("placeholder", "No customers found.")
ErrorRow == TextRow("error", "Error loading customers.")

\* the row template: four escaped cells, the id interpolated into two data-id attributes
CustomerRow(cust) ==
    [kind |-> "customer", text |-> "",
     name |-> escapeHTML(cust.name),
     email |-> escapeHTML(cust.email),
     phone |-> escapeHTML(OrEmpty(cust.phone)),
     company |-> escapeHTML(OrEmpty(cust.company)),
     editId |-> cust.id,
     deleteId |-> cust.id]

\* a render that forgets to empty the table first
KeepBody(body) == body

\* customersTableBody.innerHTML = ""
ClearBody(body) == <<>>

RECURSIVE PrependRows(_, _)
\* rows inserted before the first child instead of appended
PrependRows(body, customers) ==
    IF customers = <<>> THEN body
    ELSE PrependRows(<<CustomerRow(Head(customers))>> \o body, Tail(customers))

RECURSIVE AppendRows(_, _)
\* customers.forEach(cust => ... customersTableBody.appendChild(row))
AppendRows(body, customers) ==
    IF customers = <<>> THEN body
    ELSE AppendRows(Append(body, CustomerRow(Head(customers))), Tail(customers))

\* the table after loadCustomers has handled response resp
RenderCustomers(body, resp) ==
    IF resp.type = "neterr" \/ ~resp.ok \/ ParseFails(resp)
    THEN <<ErrorRow>>
    ELSE IF resp.body.kind # "array" \/ resp.body.items = <<>>
         THEN <<NoCustomersRow>>
         ELSE AppendRows(ClearBody(body), resp.body.items)

(***************************************************************************)
(* Customers page: the modal and the form.                                 *)
(***************************************************************************)
EmptyForm == [id |-> <<>>, name |-> <<>>, email |-> <<>>, phone |-> <<>>, company |-> <<>>]

\* a reset that is left out
ResetNothing(f) == f

\* customerForm.reset(): every control goes back to its default value.  The
\* text inputs default to empty; the hidden id input has no dirty value, its
\* value is its value attribute, which a reset leaves alone.
ResetForm(f) == [EmptyForm EXCEPT !.id = f.id]

\* what the user may have typed into the four visible fields
FormEntries ==
    {[name |-> <<"b">>, email |-> <<"f">>, phone |-> <<>>, company |-> <<>>],
     [name |-> <<"b">>, email |-> <<"f">>, phone |-> <<"5">>, company |-> <<"c">>]}

\* What the user can reach.  The form lives inside the modal, and the modal
\* element is the overlay that covers the page (a click on it closes it): the
\* form and the close button take events only while the modal is displayed,
\* the Add button and the table only while it is not.
ModalReachable == modalDisplay = "flex"
PageReachable == modalDisplay = "none"

\* issue loadCustomers(): GET /api/customers
IssueLoad(rid) == Request(rid, "load", "GET", "/api/customers", <<>>, NoPayload)

\* addCustomerBtn click: openModal
AddClick ==
    /\ path = "/customers"
    /\ PageReachable
    /\ modalTitle' = "Add New Customer"
    /\ form' = [ResetForm(form) EXCEPT !.id = <<>>]
    /\ modalDisplay' = "flex"
    /\ alert' = <<>>
    /\ UNCHANGED <<path, tableBody, net, nreq, shown, latestOk>>
    /\ UNCHANGED tickVars
    /\ confirm' = "none"
    /\ answered' = NoAnswer
    /\ submitted' = FALSE
    /\ UNCHANGED shellVars

\* modalCloseBtn click: closeModal
CloseClick ==
    /\ path = "/customers"
    /\ ModalReachable
    /\ modalDisplay' = "none"
    /\ alert' = <<>>
    /\ UNCHANGED <<path, modalTitle, form, tableBody, net, nreq, shown, latestOk>>
    /\ UNCHANGED tickVars
    /\ confirm' = "none"
    /\ answered' = NoAnswer
    /\ submitted' = FALSE
    /\ UNCHANGED shellVars

\* click inside the modal element: closeModal when the target is the overlay itself
ModalClick ==
    /\ path = "/customers"
    /\ ModalReachable
    /\ \E onOverlay \in BOOLEAN :
        /\ modalDisplay' = IF onOverlay THEN "none" ELSE modalDisplay
    /\ alert' = <<>>
    /\ UNCHANGED <<path, modalTitle, form, tableBody, net, nreq, shown, latestOk>>
    /\ UNCHANGED tickVars
    /\ confirm' = "none"
    /\ answered' = NoAnswer
    /\ submitted' = FALSE
    /\ UNCHANGED shellVars

\* the user edits the visible fields of the form; the hidden id is out of reach
UserTypes ==
    /\ path = "/customers"
    /\ ModalReachable
    /\ \E e \in FormEntries :
        form' = [id |-> form.id, name |-> e.name, email |-> e.email,
                 phone |-> e.phone, company |-> e.company]
    /\ alert' = <<>>
    /\ UNCHANGED <<path, modalDisplay, modalTitle, tableBody, net, nreq, shown, latestOk>>
    /\ UNCHANGED tickVars
    /\ confirm' = "none"
    /\ answered' = NoAnswer
    /\ submitted' = FALSE
    /\ UNCHANGED shellVars

\* the payload read from the four fields
FormPayload(f) == [name |-> f.name, email |-> f.email, phone |-> f.phone, company |-> f.company]

\* a submit that always creates
SubmitAlwaysPost(rid, f) ==
    Request(rid, "submit", "POST", "/api/customer", <<>>, FormPayload(f))

\* url and method chosen by the hidden id
SubmitRequest(rid, f) ==
    IF Truthy(f.id)
    THEN Request(rid, "submit", "PUT", "/api/customer/", f.id, FormPayload(f))
    ELSE Request(rid, "submit", "POST", "/api/customer", <<>>, FormPayload(f))

\* customerForm submit, up to the await of fetch
SubmitForm ==
    /\ path = "/customers"
    /\ ModalReachable
    /\ CanIssue(2)
    /\ nreq' = nreq + 1
    /\ net' = net \cup {SubmitRequest(nreq + 1, form)}
    /\ alert' = <<>>
    /\ UNCHANGED <<path, shown, latestOk>>
    /\ UNCHANGED custVars
    /\ UNCHANGED tickVars
    /\ confirm' = "none"
    /\ answered' = NoAnswer
    /\ submitted' = TRUE
    /\ UNCHANGED shellVars

\* a failure that is only logged
SubmitErrorSilent(resp) == <<>>

\* the text of the alert for a non-2xx answer to a submit
SubmitErrorAlert(resp) ==
    <<"Error: ">> \o (IF Truthy(resp.body.error) THEN resp.body.error ELSE resp.statusText)

\* customerForm submit, from the response on
SubmitResp ==
    /\ path = "/customers"
    /\ \E r \in net, resp \in MutationResponses :
        /\ r.kind = "submit"
        /\ answered' = Answer(r, resp)
        /\ IF resp.type = "http" /\ resp.ok
           THEN /\ alert' = IF Truthy(r.urlId) THEN <<"Customer updated!">>
                                               ELSE <<"Customer created!">>
                /\ form' = ResetForm(form)
                /\ modalDisplay' = "none"
                /\ nreq' = nreq + 1
                /\ net' = (net \ {r}) \cup {IssueLoad(nreq + 1)}
           ELSE /\ alert' = IF resp.type = "neterr" \/ ParseFails(resp)
                            THEN <<"An error occurred. Please try again.">>
                            ELSE SubmitErrorAlert(resp)
                /\ net' = net \ {r}
                /\ UNCHANGED <<form, modalDisplay, nreq>>
    /\ UNCHANGED <<path, modalTitle, tableBody, shown, latestOk>>
    /\ UNCHANGED tickVars
    /\ confirm' = "none"
    /\ submitted' = FALSE
    /\ UNCHANGED shellVars

\* the buttons of the table that carry a data-id
RowButtons ==
    {[cls |-> "edit-btn", id |-> tableBody[i].editId] : i \in 1..Len(tableBody)}
    \cup {[cls |-> "delete-btn", id |-> tableBody[i].deleteId] : i \in 1..Len(tableBody)}

\* customersTableBody click on an element without data-id, or with an empty one
TableClickOther ==
    /\ path = "/customers"
    /\ PageReachable
    /\ alert' = <<>>
    /\ UNCHANGED <<path, net, nreq, shown, latestOk>>
    /\ UNCHANGED custVars
    /\ UNCHANGED tickVars
    /\ confirm' = "none"
    /\ answered' = NoAnswer
    /\ submitted' = FALSE
    /\ UNCHANGED shellVars

\* a delete that asks and then ignores the answer
DeleteConfirmSkipped(confirmed) == TRUE

\* the guard of the DELETE request: the answer to confirm()
DeleteConfirmed(confirmed) == confirmed

\* customersTableBody click on a Delete button, up to the await of fetch
DeleteClick ==
    /\ path = "/customers"
    /\ PageReachable
    /\ CanIssue(2)
    /\ \E b \in RowButtons, confirmed \in BOOLEAN :
        /\ b.cls = "delete-btn"
        /\ Truthy(b.id)
        /\ IF DeleteConfirmed(confirmed)
           THEN /\ nreq' = nreq + 1
                /\ net' = net \cup {Request(nreq + 1, "delete", "DELETE", "/api/customer/",
                                            b.id, NoPayload)}
           ELSE UNCHANGED <<net, nreq>>
        /\ confirm' = IF confirmed THEN "yes" ELSE "no"
    /\ alert' = <<>>
    /\ UNCHANGED <<path, shown, latestOk>>
    /\ UNCHANGED custVars
    /\ UNCHANGED tickVars
    /\ answered' = NoAnswer
    /\ submitted' = FALSE
    /\ UNCHANGED shellVars

\* `Error: ${err.error}`
DeleteErrorAlert(resp) ==
    <<"Error: ">> \o Str(resp.body.error)

\* customersTableBody click on a Delete button, from the response on
DeleteResp ==
    /\ path = "/customers"
    /\ \E r \in net, resp \in MutationResponses :
        /\ r.kind = "delete"
        /\ answered' = Answer(r, resp)
        /\ IF resp.type = "http" /\ resp.ok
           THEN /\ alert' = <<"Customer deleted.">>
                /\ nreq' = nreq + 1
                /\ net' = (net \ {r}) \cup {IssueLoad(nreq + 1)}
           ELSE /\ alert' = IF resp.type = "neterr" \/ ParseFails(resp)
                            THEN <<"An error occurred.">>
                            ELSE DeleteErrorAlert(resp)
                /\ net' = net \ {r}
                /\ UNCHANGED nreq
    /\ UNCHANGED <<path, shown, latestOk>>
    /\ UNCHANGED custVars
    /\ UNCHANGED tickVars
    /\ confirm' = "none"
    /\ submitted' = FALSE
    /\ UNCHANGED shellVars

\* customersTableBody click on an Edit button, up to the await of fetch
EditClick ==
    /\ path = "/customers"
    /\ PageReachable
    /\ CanIssue(1)
    /\ \E b \in RowButtons :
        /\ b.cls = "edit-btn"
        /\ Truthy(b.id)
        /\ nreq' = nreq + 1
        /\ net' = net \cup {Request(nreq + 1, "edit", "GET", "/api/customer/", b.id, NoPayload)}
    /\ alert' = <<>>
    /\ UNCHANGED <<path, shown, latestOk>>
    /\ UNCHANGED custVars
    /\ UNCHANGED tickVars
    /\ confirm' = "none"
    /\ answered' = NoAnswer
    /\ submitted' = FALSE
    /\ UNCHANGED shellVars

\* customersTableBody click on an Edit button, from the response on
EditResp ==
    /\ path = "/customers"
    /\ \E r \in net, resp \in EditResponses :
        /\ r.kind = "edit"
        /\ answered' = Answer(r, resp)
        /\ net' = net \ {r}
        /\ IF resp.type = "http" /\ resp.ok /\ ~ParseFails(resp)
           THEN /\ modalTitle' = "Edit Customer"
                /\ form' = [id |-> r.urlId,
                            name |-> OrEmpty(resp.body.cust.name),
                            email |-> OrEmpty(resp.body.cust.email),
                            phone |-> OrEmpty(resp.body.cust.phone),
                            company |-> OrEmpty(resp.body.cust.company)]
                /\ modalDisplay' = "flex"
                /\ alert' = <<>>
           ELSE /\ alert' = <<"Could not load customer data.">>
                /\ UNCHANGED <<modalTitle, form, modalDisplay>>
    /\ UNCHANGED <<path, tableBody, nreq, shown, latestOk>>
    /\ UNCHANGED tickVars
    /\ confirm' = "none"
    /\ submitted' = FALSE
    /\ UNCHANGED shellVars

LoadSucceeded(resp) == resp.type = "http" /\ resp.ok /\ ~ParseFails(resp)

\* the response a list shows when it holds no customers / tickets
ListItems(resp) == IF resp.body.kind = "array" THEN resp.body.items ELSE <<>>

\* history of the list loads, updated when load r is answered with resp
NoteLoad(r, resp) ==
    /\ shown' = [done |-> TRUE, ok |-> LoadSucceeded(resp), items |-> ListItems(resp)]
    /\ latestOk' = IF LoadSucceeded(resp) /\ r.rid > latestOk.rid
                   THEN [rid |-> r.rid, items |-> ListItems(resp)]
                   ELSE latestOk

\* loadCustomers, from the response on
LoadCustomersResp(lists) ==
    /\ path = "/customers"
    /\ \E r \in net, resp \in CustomerListResponses(lists) :
        /\ r.kind = "load"
        /\ answered' = Answer(r, resp)
        /\ net' = net \ {r}
        /\ tableBody' = RenderCustomers(tableBody, resp)
        /\ NoteLoad(r, resp)
    /\ alert' = <<>>
    /\ UNCHANGED <<path, modalDisplay, modalTitle, form, nreq>>
    /\ UNCHANGED tickVars
    /\ confirm' = "none"
    /\ submitted' = FALSE
    /\ UNCHANGED shellVars

LoadResp == LoadCustomersResp(CustomerLists)

(***************************************************************************)
(* Tickets page.                                                           *)
(***************************************************************************)
Whitespace == {" ", "\n"}

RECURSIVE TrimStart(_)
TrimStart(s) ==
    IF s # <<>> /\ Head(s) \in Whitespace THEN TrimStart(Tail(s)) ELSE s

RECURSIVE TrimEnd(_)
TrimEnd(s) ==
    IF s # <<>> /\ s[Len(s)] \in Whitespace THEN TrimEnd(SubSeq(s, 1, Len(s) - 1)) ELSE s

\* String.prototype.trim
Trim(s) == TrimEnd(TrimStart(s))

Priorities == {<<"Low">>, <<"Medium">>, <<"High">>}

\* the option the markup of #ticket-priority preselects (the first one); the
\* script sets 'Medium' itself after every reset
HtmlDefaultPriority == <<"Low">>

Ticket1 == [customer_id |-> <<"1">>, issue |-> <<"x">>, priority |-> <<"High">>,
            status |-> <<"Closed">>]
Ticket2 == [customer_id |-> Undefined, issue |-> Undefined, priority |-> Undefined,
            status |-> Undefined]
TicketLists == Alternating(Ticket1, Ticket2) \cup Alternating(Ticket2, Ticket1)
TicketIds == {<<"t7">>}

NoTicketPayload == [customer_id |-> Undefined, issue |-> Undefined, priority |-> Undefined]

TicketListResponses ==
    GetFailResponses
    \cup {Http(TRUE, <<"OK">>, ArrayBody(l)) : l \in TicketLists}
    \cup {Http(TRUE, <<"OK">>, NoBody), Http(TRUE, <<"OK">>, ObjectBody(Undefined))}

\* answers to the GET /api/customers of the customer picker
PickerResponses ==
    GetFailResponses
    \cup {Http(TRUE, <<"OK">>, ArrayBody(<<>>)), Http(TRUE, <<"OK">>, ArrayBody(<<Cust1, Cust2>>))}

TicketCreateResponses ==
    FailResponses
    \cup {Http(TRUE, <<"Created">>, TicketIdBody(t)) : t \in TicketIds}
    \cup {Http(TRUE, <<"Created">>, ObjectBody(Undefined)), Http(TRUE, <<"Created">>, NoBody)}

\* setTicketStatus(message, isError = false)
TicketStatus(message, isError) == [text |-> message, isError |-> isError]
NoTicketStatus == TicketStatus(<<>>, FALSE)

Option(value, text) == [value |-> value, text |-> text]
TextItem(kind, text) ==
    [kind |-> kind, text |-> text, issue |-> <<>>, customer |-> <<>>, priority |-> <<>>,
     status |-> <<>>]
LoadingItem == TextItem("loading", "Loading tickets...")
NoTicketsItem == TextItem("placeholder", "No recent tickets found.")
ErrorItem == TextItem("error", "Error loading tickets.")

\* v || fallback
OrElse(v, fallback) == IF Truthy(v) THEN v ELSE fallback

\* `${issue} -- Customer: ${customer} * Priority: ${priority} * Status: ${status}`
TicketItem(ticket) ==
    [kind |-> "ticket", text |-> "",
     issue |-> OrElse(ticket.issue, <<"No issue description">>),
     customer |-> OrElse(ticket.customer_id, <<"Unknown customer">>),
     priority |-> OrElse(ticket.priority, <<"Medium">>),
     status |-> OrElse(ticket.status, <<"Open">>)]

\* ticketList.innerHTML = ''
ClearList(list) == <<>>

RECURSIVE AppendItems(_, _)
\* tickets.forEach(ticket => ... ticketList.appendChild(item))
AppendItems(list, tickets) ==
    IF tickets = <<>> THEN list
    ELSE AppendItems(Append(list, TicketItem(Head(tickets))), Tail(tickets))

\* the list after loadTickets has handled response resp
RenderTickets(list, resp) ==
    IF resp.type = "neterr" \/ ~resp.ok \/ ParseFails(resp)
    THEN <<ErrorItem>>
    ELSE IF resp.body.kind # "array" \/ resp.body.items = <<>>
         THEN <<NoTicketsItem>>
         ELSE AppendItems(ClearList(list), resp.body.items)

RECURSIVE AppendOptions(_, _)
\* customers.forEach(customer => ... customerSelect.appendChild(option))
AppendOptions(options, customers) ==
    IF customers = <<>> THEN options
    ELSE AppendOptions(
             Append(options, Option(Head(customers).id,
                                    OrElse(Head(customers).name, <<"Unnamed">>))),
             Tail(customers))

\* the options after populateCustomers has handled response resp
RenderOptions(resp) ==
    IF resp.type = "neterr" \/ ~resp.ok \/ ParseFails(resp)
    THEN <<Option(<<>>, <<"Error loading customers">>)>>
    ELSE IF resp.body.kind # "array" \/ resp.body.items = <<>>
         THEN <<Option(<<>>, <<"No customers found">>)>>
         ELSE AppendOptions(<<Option(<<>>, <<"Select a customer">>)>>, resp.body.items)

IssuePopulate(rid) ==
    Request(rid, "populate", "GET", "/api/customers", <<>>, NoTicketPayload)
IssueTicketLoad(rid) ==
    Request(rid, "tload", "GET", "/api/tickets", <<>>, NoTicketPayload)

\* populateCustomers, from the response on; replacing the options selects the first one
PopulateResp ==
    /\ path = "/tickets"
    /\ \E r \in net, resp \in PickerResponses :
        /\ r.kind = "populate"
        /\ answered' = Answer(r, resp)
        /\ net' = net \ {r}
        /\ selectOptions' = RenderOptions(resp)
        /\ tform' = [tform EXCEPT !.customer = RenderOptions(resp)[1].value]
    /\ alert' = <<>>
    /\ confirm' = "none"
    /\ UNCHANGED <<path, nreq, shown, latestOk, ticketList, ticketStatus>>
    /\ UNCHANGED custVars
    /\ submitted' = FALSE
    /\ UNCHANGED shellVars

\* loadTickets, from the response on
TicketLoadResp ==
    /\ path = "/tickets"
    /\ \E r \in net, resp \in TicketListResponses :
        /\ r.kind = "tload"
        /\ answered' = Answer(r, resp)
        /\ net' = net \ {r}
        /\ ticketList' = RenderTickets(ticketList, resp)
        /\ NoteLoad(r, resp)
    /\ alert' = <<>>
    /\ confirm' = "none"
    /\ UNCHANGED <<path, nreq, ticketStatus, tform, selectOptions>>
    /\ UNCHANGED custVars
    /\ submitted' = FALSE
    /\ UNCHANGED shellVars

\* the user picks an option of the customer select
UserSelectsCustomer ==
    /\ path = "/tickets"
    /\ \E i \in 1..Len(selectOptions) :
        tform' = [tform EXCEPT !.customer = selectOptions[i].value]
    /\ alert' = <<>>
    /\ confirm' = "none"
    /\ UNCHANGED <<path, net, nreq, shown, latestOk, ticketList, ticketStatus, selectOptions>>
    /\ UNCHANGED custVars
    /\ answered' = NoAnswer
    /\ submitted' = FALSE
    /\ UNCHANGED shellVars

\* what the user may have typed into #ticket-issue
IssueEntries == {<<>>, <<" ", "\n">>, <<" ", "x", " ">>}

\* the user edits the issue text
UserTypesIssue ==
    /\ path = "/tickets"
    /\ \E v \in IssueEntries :
        tform' = [tform EXCEPT !.issue = v]
    /\ alert' = <<>>
    /\ confirm' = "none"
    /\ UNCHANGED <<path, net, nreq, shown, latestOk, ticketList, ticketStatus, selectOptions>>
    /\ UNCHANGED custVars
    /\ answered' = NoAnswer
    /\ submitted' = FALSE
    /\ UNCHANGED shellVars

\* the user picks a priority
UserSelectsPriority ==
    /\ path = "/tickets"
    /\ \E p \in Priorities :
        tform' = [tform EXCEPT !.priority = p]
    /\ alert' = <<>>
    /\ confirm' = "none"
    /\ UNCHANGED <<path, net, nreq, shown, latestOk, ticketList, ticketStatus, selectOptions>>
    /\ UNCHANGED custVars
    /\ answered' = NoAnswer
    /\ submitted' = FALSE
    /\ UNCHANGED shellVars

\* a validation that tests the issue first
TicketRejectionIssueFirst(customerId, issue) ==
    IF ~Truthy(issue) THEN <<"Issue description is required.">>
    ELSE IF ~Truthy(customerId) THEN <<"Please select a customer.">>
    ELSE <<>>

\* the validation of the ticket form: the message of the rejection, <<>> when valid
TicketRejection(customerId, issue) ==
    IF ~Truthy(customerId) THEN <<"Please select a customer.">>
    ELSE IF ~Truthy(issue) THEN <<"Issue description is required.">>
    ELSE <<>>

\* the body of POST /api/tickets
TicketPayload(f) == [customer_id |-> f.customer, issue |-> Trim(f.issue), priority |-> f.priority]

\* ticketForm submit, up to the await of fetch
TicketSubmit ==
    /\ path = "/tickets"
    /\ LET rejection == TicketRejection(tform.customer, Trim(tform.issue))
       IN IF rejection # <<>>
          THEN /\ ticketStatus' = TicketStatus(rejection, TRUE)
               /\ UNCHANGED <<net, nreq>>
          ELSE /\ CanIssue(2)
               /\ ticketStatus' = TicketStatus(<<"Creating ticket...">>, FALSE)
               /\ nreq' = nreq + 1
               /\ net' = net \cup {Request(nreq + 1, "tsubmit", "POST", "/api/tickets", <<>>,
                                           TicketPayload(tform))}
    /\ alert' = <<>>
    /\ confirm' = "none"
    /\ UNCHANGED <<path, shown, latestOk, ticketList, tform, selectOptions>>
    /\ UNCHANGED custVars
    /\ answered' = NoAnswer
    /\ submitted' = TRUE
    /\ UNCHANGED shellVars

\* ticketForm.reset(): the controls go back to the defaults of the markup
ResetTicketForm(f) == [customer |-> <<>>, issue |-> <<>>, priority |-> HtmlDefaultPriority]

\* err.message of what the try block threw
TicketErrorMessage(resp) ==
    IF resp.type = "neterr" THEN <<"Failed to fetch">>
    ELSE IF ParseFails(resp) THEN <<"Unexpected token">>
    ELSE OrElse(resp.body.error, <<"Failed to create ticket">>)

\* prioritySelect.value = 'Medium'
PriorityBackToMedium(f) == [f EXCEPT !.priority = <<"Medium">>]

\* ticketForm submit, from the response on
TicketSubmitResp ==
    /\ path = "/tickets"
    /\ \E r \in net, resp \in TicketCreateResponses :
        /\ r.kind = "tsubmit"
        /\ answered' = Answer(r, resp)
        /\ IF resp.type = "http" /\ ~ParseFails(resp) /\ resp.ok
           THEN /\ ticketStatus' = TicketStatus(<<"Ticket created! ID: ">>
                                                \o Str(resp.body.ticket_id), FALSE)
                /\ tform' = PriorityBackToMedium(ResetTicketForm(tform))
                /\ ticketList' = <<LoadingItem>>
                /\ nreq' = nreq + 1
                /\ net' = (net \ {r}) \cup {IssueTicketLoad(nreq + 1)}
           ELSE /\ ticketStatus' = TicketStatus(<<"Error creating ticket: ">>
                                                \o TicketErrorMessage(resp), TRUE)
                /\ net' = net \ {r}
                /\ UNCHANGED <<tform, ticketList, nreq>>
    /\ alert' = <<>>
    /\ confirm' = "none"
    /\ UNCHANGED <<path, shown, latestOk, selectOptions>>
    /\ UNCHANGED custVars
    /\ submitted' = FALSE
    /\ UNCHANGED shellVars

(***************************************************************************)
(* Theme and layout controller.                                            *)
(***************************************************************************)
\* localStorage.getItem of a key that was never written
Null == "null"

\* what localStorage may hold under "theme" when a page loads
StoredThemes == {Null, "light", "dark", "blue"}

\* the mode and the stored value, as two consecutive toggles would compare them
ThemeSnapshot(t) == [dark |-> t.dark, stored |-> t.stored]

\* a startup that never reads the stored theme
StartupIgnoresStorage(stored) ==
    [dark |-> FALSE, stored |-> stored, sidebar |-> FALSE, last |-> "start", hist |-> <<>>]

\* DOMContentLoaded: a fresh document carries neither marker; the dark-mode
\* marker is added when the stored theme is "dark"
Startup(stored) ==
    [dark |-> stored = "dark", stored |-> stored, sidebar |-> FALSE, last |-> "start",
     hist |-> <<>>]

\* a toggle that flips the marker and stores nothing
toggleThemeUnsaved(t) == [t EXCEPT !.dark = ~t.dark]

\* toggleTheme(): flip the marker, store the name of the resulting mode
toggleTheme(t) ==
    [t EXCEPT !.dark = ~t.dark, !.stored = IF ~t.dark THEN "dark" ELSE "light"]

\* history: the snapshots taken before each of the last two consecutive toggles
ToggleHistory(t) ==
    IF Len(t.hist) < 2 THEN Append(t.hist, ThemeSnapshot(t))
    ELSE <<t.hist[2], ThemeSnapshot(t)>>

\* click on #theme-toggle
ThemeToggleClick ==
    /\ theme' = [toggleTheme(theme) EXCEPT !.last = "toggle", !.hist = ToggleHistory(theme)]
    /\ UNCHANGED <<dash, chart, lf>>
    /\ UNCHANGED pageVars

\* click on #mobile-menu-btn
SidebarToggleClick ==
    /\ theme' = [theme EXCEPT !.sidebar = ~theme.sidebar, !.last = "sidebar", !.hist = <<>>]
    /\ UNCHANGED <<dash, chart, lf>>
    /\ UNCHANGED pageVars

(***************************************************************************)
(* Chart renderer.                                                         *)
(***************************************************************************)
MaxCharts == 3   \* calls of renderResolutionChart in one page lifetime
MaxLoads == 2    \* calls of loadChartJsIfNeeded in one page lifetime

ChartIds == 1..MaxCharts

\* a window before any chart call: lib is whether window.Chart is defined,
\* canvas whether #resolution-chart exists, handle is window.resolutionChart
\* (0: undefined), destroys counts the destroy() calls on each instance,
\* refErrors the constructions reached while window.Chart was undefined,
\* scripts the loader elements in document.head, loading the loader promises
\* that are pending, calls and renders the calls of loadChartJsIfNeeded and
\* of renderResolutionChart so far
FreshWindow(lib, canvas) ==
    [lib |-> lib, canvas |-> canvas, handle |-> 0, made |-> 0,
     live |-> {}, destroys |-> [i \in ChartIds |-> 0], refErrors |-> 0,
     scripts |-> 0, loading |-> 0, calls |-> 0, renders |-> 0, last |-> "none"]

\* if (window.resolutionChart) window.resolutionChart.destroy()
DestroyPrevious(c) ==
    IF c.handle = 0 THEN c
    ELSE [c EXCEPT !.live = c.live \ {c.handle},
                   !.destroys[c.handle] = c.destroys[c.handle] + 1]

\* window.resolutionChart = new Chart(ctx, ...): a ReferenceError when the
\* Chart global is not defined, a new instance otherwise
ConstructChart(c) ==
    IF ~c.lib
    THEN [chart |-> [c EXCEPT !.refErrors = c.refErrors + 1], threw |-> TRUE]
    ELSE [chart |-> [c EXCEPT !.made = c.made + 1, !.handle = c.made + 1,
                              !.live = c.live \cup {c.made + 1}],
          threw |-> FALSE]

\* renderResolutionChart(labels, values): the window after the call, and
\* whether the call threw
renderResolutionChart(c) ==
    IF ~c.canvas THEN [chart |-> c, threw |-> FALSE]
    ELSE ConstructChart(DestroyPrevious(c))

\* loadChartJsIfNeeded(): resolve at once when window.Chart is defined,
\* otherwise append a loader script to document.head and wait for it
loadChartJsIfNeeded(c) ==
    IF c.lib THEN c
    ELSE [c EXCEPT !.scripts = c.scripts + 1, !.loading = c.loading + 1]

\* a call of renderResolutionChart; a call that throws leaves what it had
\* done before the throw
RenderCall ==
    /\ chart.renders < MaxCharts
    /\ chart' = [renderResolutionChart(chart).chart EXCEPT
                    !.renders = chart.renders + 1, !.last = "render"]
    /\ UNCHANGED <<theme, dash, lf>>
    /\ UNCHANGED pageVars

\* a call of loadChartJsIfNeeded
LoadCall ==
    /\ chart.calls < MaxLoads
    /\ chart' = [loadChartJsIfNeeded(chart) EXCEPT !.calls = chart.calls + 1, !.last = "load"]
    /\ UNCHANGED <<theme, dash, lf>>
    /\ UNCHANGED pageVars

\* script.onload: the script has run and has defined window.Chart, or has not
ScriptLoaded ==
    /\ chart.loading > 0
    /\ \E exposes \in BOOLEAN :
        chart' = [chart EXCEPT !.loading = chart.loading - 1,
                               !.lib = chart.lib \/ exposes, !.last = "onload"]
    /\ UNCHANGED <<theme, dash, lf>>
    /\ UNCHANGED pageVars

\* script.onerror
ScriptFailed ==
    /\ chart.loading > 0
    /\ chart' = [chart EXCEPT !.loading = chart.loading - 1, !.last = "onerror"]
    /\ UNCHANGED <<theme, dash, lf>>
    /\ UNCHANGED pageVars

(***************************************************************************)
(* Dashboard: KPI fetchers and ticket metrics.                             *)
(***************************************************************************)
Fetchers == {"kpis", "open", "metrics"}

\* a property the JSON body does not carry
Missing == -1

Digit(d) ==
    CASE d = 0 -> "0" [] d = 1 -> "1" [] d = 2 -> "2" [] d = 3 -> "3" [] d = 4 -> "4"
      [] d = 5 -> "5" [] d = 6 -> "6" [] d = 7 -> "7" [] d = 8 -> "8" [] d = 9 -> "9"

RECURSIVE DecimalText(_)
\* String(n) of a natural number
DecimalText(n) ==
    IF n < 10 THEN <<Digit(n)>> ELSE Append(DecimalText(n \div 10), Digit(n % 10))

\* (h / 100).toFixed(1) of a number given in hundredths, away from the ties
ToFixed1(h) ==
    LET tenths == (h + 5) \div 10
    IN  DecimalText(tenths \div 10) \o <<".", Digit(tenths % 10)>>

\* x ?? 0
OrZero(x) == IF x = Missing THEN 0 ELSE x

LoadingText == <<"Loading...">>
ErrorText == <<"Error">>
ErrText == <<"Err">>

\* a response body as the dashboard reads it
DNoBody == [kind |-> "unparsable", total_customers |-> Missing,
            new_customers_last_30_days |-> Missing, statuses |-> <<>>,
            avg_resolution_hours |-> Missing]
DObject == [DNoBody EXCEPT !.kind = "object"]
KpiBody(total, new) ==
    [DObject EXCEPT !.total_customers = total, !.new_customers_last_30_days = new]
StatusesBody(l) == [DNoBody EXCEPT !.kind = "array", !.statuses = l]
MetricsBody(h) == [DObject EXCEPT !.avg_resolution_hours = h]

DNetErr == [type |-> "neterr", ok |-> FALSE, body |-> DNoBody]
DHttp(ok, body) == [type |-> "http", ok |-> ok, body |-> body]
DNoResp == [type |-> "none", ok |-> FALSE, body |-> DNoBody]

\* the status values of the tickets GET /api/tickets may return
StatusLists == Alternating("Open", "Closed") \cup Alternating("Closed", "Open")

\* avg_resolution_hours in hundredths: 0, 2.34, 11.96
AvgValues == {0, 234, 1196}

KpiResponses ==
    {DNetErr, DHttp(FALSE, DObject), DHttp(TRUE, DNoBody),
     DHttp(TRUE, KpiBody(3, 1)), DHttp(TRUE, KpiBody(Missing, Missing))}

OpenResponses ==
    {DNetErr, DHttp(FALSE, DObject), DHttp(TRUE, DNoBody), DHttp(TRUE, DObject)}
    \cup {DHttp(TRUE, StatusesBody(l)) : l \in StatusLists}

\* fetchTicketMetrics reads the body whatever the status
MetricsResponses ==
    {DNetErr}
    \cup {DHttp(ok, b) : ok \in BOOLEAN,
                         b \in {DNoBody, DObject} \cup {MetricsBody(h) : h \in AvgValues}}

\* the exception the try block of a fetcher that tests response.ok throws on
Failed(resp) == resp.type = "neterr" \/ ~resp.ok \/ resp.body.kind = "unparsable"

\* the dashboard after DOMContentLoaded: the three fetchers are in flight
DashStart ==
    [total |-> LoadingText, newc |-> LoadingText, open |-> LoadingText, avg |-> LoadingText,
     pending |-> Fetchers, got |-> [f \in Fetchers |-> DNoResp], last |-> "none"]

\* a page that is not the dashboard
DashIdle == [DashStart EXCEPT !.pending = {}]

\* the fetcher f has received resp
Received(d, f, resp) ==
    [d EXCEPT !.pending = d.pending \ {f}, !.got[f] = resp, !.last = f]

\* fetchCustomerKPIs, from the response on
fetchCustomerKPIs(d, resp) ==
    IF Failed(resp)
    THEN [Received(d, "kpis", resp) EXCEPT !.newc = ErrorText]
    ELSE [Received(d, "kpis", resp) EXCEPT
            !.total = DecimalText(OrZero(resp.body.total_customers)),
            !.newc = DecimalText(OrZero(resp.body.new_customers_last_30_days))]

\* the response of GET /api/customer-kpis arrives
KpisResp ==
    /\ path = "/"
    /\ "kpis" \in dash.pending
    /\ \E resp \in KpiResponses : dash' = fetchCustomerKPIs(dash, resp)
    /\ UNCHANGED <<theme, chart, lf>>
    /\ UNCHANGED pageVars

\* a catch block that overwrites every slot of the dashboard
MarkEverySlot(d) ==
    [d EXCEPT !.total = ErrorText, !.newc = ErrorText, !.open = ErrorText,
              !.avg = ErrorText]

\* the catch block of fetchOpenTickets
MarkOpenError(d) == [d EXCEPT !.open = ErrorText]

RECURSIVE CountOpen(_)
\* tickets.filter(t => t.status === 'Open').length
CountOpen(l) ==
    IF l = <<>> THEN 0
    ELSE (IF Head(l) = "Open" THEN 1 ELSE 0) + CountOpen(Tail(l))

\* fetchOpenTickets, from the response on
fetchOpenTickets(d, resp) ==
    IF Failed(resp)
    THEN MarkOpenError(Received(d, "open", resp))
    ELSE [Received(d, "open", resp) EXCEPT
            !.open = DecimalText(IF resp.body.kind = "array"
                                 THEN CountOpen(resp.body.statuses) ELSE 0)]

\* the response of GET /api/tickets arrives
OpenResp ==
    /\ path = "/"
    /\ "open" \in dash.pending
    /\ \E resp \in OpenResponses : dash' = fetchOpenTickets(dash, resp)
    /\ UNCHANGED <<theme, chart, lf>>
    /\ UNCHANGED pageVars

\* what makes the try block of fetchTicketMetrics throw before the chart:
\* fetch or json() rejecting, or toFixed on a missing avg_resolution_hours
MetricsFailed(resp) ==
    \/ resp.type = "neterr"
    \/ resp.body.kind = "unparsable"
    \/ resp.body.avg_resolution_hours = Missing

\* fetchTicketMetrics, from the response on: the slot is written, then the
\* chart is rendered inside the same try block
fetchTicketMetrics(d, c, resp) ==
    IF MetricsFailed(resp)
    THEN [dash |-> [Received(d, "metrics", resp) EXCEPT !.avg = ErrText],
          chart |-> [c EXCEPT !.last = "none"]]
    ELSE LET rendered == renderResolutionChart(c)
         IN  [dash |-> [Received(d, "metrics", resp) EXCEPT
                          !.avg = IF rendered.threw THEN ErrText
                                  ELSE ToFixed1(resp.body.avg_resolution_hours)
                                       \o <<" hrs">>],
              chart |-> [rendered.chart EXCEPT !.last = "render"]]

\* the response of GET /api/ticket-metrics arrives
MetricsResp ==
    /\ path = "/"
    /\ "metrics" \in dash.pending
    /\ \E resp \in MetricsResponses :
        /\ dash' = fetchTicketMetrics(dash, chart, resp).dash
        /\ chart' = fetchTicketMetrics(dash, chart, resp).chart
    /\ UNCHANGED <<theme, lf>>
    /\ UNCHANGED pageVars

(***************************************************************************)
(* Leads & loyalty forms.                                                  *)
(***************************************************************************)
MaxFormReq == 2   \* requests the forms issue in one page lifetime

LoyaltyForms == {"profile", "purchase", "redeem", "referral"}

\* what the user may have typed into a field of a loyalty form
FieldValues == {<<>>, <<" ">>, <<"7", " ", "x">>}

\* what the user may have typed into the lead form
LeadEntries ==
    {[name |-> <<>>, email |-> <<>>, source |-> <<>>],
     [name |-> <<"b">>, email |-> <<"f">>, source |-> <<"w">>]}

\* encodeURIComponent, on the characters of FieldValues
EncodeChar(c) == IF c = " " THEN <<"%", "2", "0">> ELSE <<c>>

RECURSIVE encodeURIComponent(_)
encodeURIComponent(v) ==
    IF v = <<>> THEN <<>> ELSE EncodeChar(Head(v)) \o encodeURIComponent(Tail(v))

\* Number(points), as JSON.stringify writes it: blank text is 0, digits are
\* their number, anything else is NaN, which JSON writes as null
NumberJson(v) ==
    IF Trim(v) = <<>> THEN <<"0">>
    ELSE IF \A i \in 1..Len(Trim(v)) : Trim(v)[i] \in {"0", "1", "2", "3", "4", "5", "6", "7", "8", "9"}
         THEN Trim(v)
         ELSE <<"null">>

\* the early return of each loyalty handler: the customer id is trimmed, the
\* referral code is trimmed, the amount and the points are taken as typed
FormValid(which, customer, second) ==
    /\ Truthy(Trim(customer))
    /\ CASE which = "profile" -> TRUE
         [] which = "referral" -> Truthy(Trim(second))
         [] OTHER -> Truthy(second)

\* the request of a form: method, url, and the JSON body as key-value pairs
FormRequest(id, which, customer, second) ==
    [id |-> id, form |-> which,
     method |-> IF which = "profile" THEN "GET" ELSE "POST",
     url |-> CASE which = "lead" -> <<"/api/lead">>
               [] which = "profile" -> <<"/api/loyalty/">> \o encodeURIComponent(Trim(customer))
               [] which = "purchase" -> <<"/api/simulate-purchase">>
               [] which = "redeem" ->
                    <<"/api/loyalty/">> \o encodeURIComponent(Trim(customer)) \o <<"/redeem">>
               [] which = "referral" ->
                    <<"/api/loyalty/">> \o encodeURIComponent(Trim(customer))
                        \o <<"/use-referral">>,
     body |-> CASE which = "profile" -> <<>>
                [] which = "purchase" -> <<<<"customer_id", Trim(customer)>>, <<"amount", second>>>>
                [] which = "redeem" -> <<<<"points_to_redeem", NumberJson(second)>>>>
                [] which = "referral" -> <<<<"referral_code", Trim(second)>>>>
                [] OTHER -> <<>>]

\* the request of the lead form
LeadRequest(id, f) ==
    [FormRequest(id, "lead", <<>>, <<>>) EXCEPT
        !.body = <<<<"name", f.name>>, <<"email", f.email>>, <<"source", f.source>>,
                   <<"status", <<"New">>>>>>]

NoLead == [name |-> <<>>, email |-> <<>>, source |-> <<>>]

\* showLoyaltyResult(message, isError = false)
LoyaltyResult(message, isError) == [text |-> message, isError |-> isError]

\* what a step of the forms did: a submit with the two field values read, or
\* the handling of a response
FormEvent(kind, which, customer, second) ==
    [kind |-> kind, form |-> which, customer |-> customer, second |-> second]
NoFormEvent == FormEvent("none", "none", <<>>, <<>>)

\* the forms before any submit
FormsStart ==
    [lead |-> NoLead, net |-> {}, nreq |-> 0, output |-> LoyaltyResult(<<>>, FALSE),
     alert |-> <<>>, uncaught |-> FALSE, last |-> NoFormEvent]

\* the step of a handler that raises no alert
Quiet(l, event) == [l EXCEPT !.alert = <<>>, !.last = event]

\* the user fills in the lead form
UserTypesLead ==
    /\ \E e \in LeadEntries :
        lf' = [Quiet(lf, NoFormEvent) EXCEPT !.lead = e]
    /\ UNCHANGED <<theme, dash, chart>>
    /\ UNCHANGED pageVars

\* leadForm submit, up to the await of fetch: no field is tested
LeadSubmit ==
    /\ lf.nreq < MaxFormReq
    /\ lf' = [Quiet(lf, FormEvent("submit", "lead", lf.lead.name, lf.lead.email)) EXCEPT
                !.nreq = lf.nreq + 1,
                !.net = lf.net \cup {LeadRequest(lf.nreq + 1, lf.lead)}]
    /\ UNCHANGED <<theme, dash, chart>>
    /\ UNCHANGED pageVars

\* the lead handler has no try block: a rejected fetch or json() leaves the
\* handler as an unhandled promise rejection
LeadFailureEscapes(l) == [l EXCEPT !.uncaught = TRUE]

\* leadForm submit, from the response on
LeadResp ==
    /\ \E r \in lf.net, resp \in MutationResponses :
        /\ r.form = "lead"
        /\ LET l == [Quiet(lf, FormEvent("resp", "lead", <<>>, <<>>)) EXCEPT
                        !.net = lf.net \ {r}]
           IN  lf' = IF resp.type = "neterr" THEN LeadFailureEscapes(l)
                     ELSE IF resp.ok
                          THEN [l EXCEPT !.alert = <<"New Lead captured!">>, !.lead = NoLead]
                          ELSE IF ParseFails(resp) THEN LeadFailureEscapes(l)
                               ELSE [l EXCEPT !.alert =
                                        <<"Error capturing lead: ">>
                                        \o (IF Truthy(resp.body.error) THEN resp.body.error
                                            ELSE resp.statusText)]
    /\ UNCHANGED <<theme, dash, chart>>
    /\ UNCHANGED pageVars

\* the submit handler of a loyalty form, up to the await of fetch
LoyaltySubmit(which) ==
    /\ \E customer \in FieldValues, second \in FieldValues :
        /\ which = "profile" => second = <<>>
        /\ IF FormValid(which, customer, second)
           THEN /\ lf.nreq < MaxFormReq
                /\ lf' = [Quiet(lf, FormEvent("submit", which, customer, second)) EXCEPT
                            !.nreq = lf.nreq + 1,
                            !.net = lf.net
                                    \cup {FormRequest(lf.nreq + 1, which, customer, second)}]
           ELSE lf' = Quiet(lf, FormEvent("submit", which, customer, second))
    /\ UNCHANGED <<theme, dash, chart>>
    /\ UNCHANGED pageVars

ProfileSubmit == LoyaltySubmit("profile")
PurchaseSubmit == LoyaltySubmit("purchase")
RedeemSubmit == LoyaltySubmit("redeem")
ReferralSubmit == LoyaltySubmit("referral")

\* the fallback message of each loyalty handler
FormFallback(which) ==
    CASE which = "profile" -> <<"Failed to fetch profile">>
      [] which = "purchase" -> <<"Failed to simulate purchase">>
      [] which = "redeem" -> <<"Failed to redeem points">>
      [] OTHER -> <<"Failed to apply referral">>

\* what a loyalty handler shows for resp: every handler parses the body
\* whatever the status, and its catch block shows err.message
LoyaltyOutcome(which, resp) ==
    IF resp.type = "neterr" THEN LoyaltyResult(<<"Failed to fetch">>, TRUE)
    ELSE IF ParseFails(resp) THEN LoyaltyResult(<<"Unexpected token">>, TRUE)
    ELSE IF ~resp.ok
         THEN LoyaltyResult(IF Truthy(resp.body.error) THEN resp.body.error
                            ELSE FormFallback(which), TRUE)
         ELSE LoyaltyResult(<<"{}">>, FALSE)

\* the submit handler of a loyalty form, from the response on
LoyaltyResp(which) ==
    /\ \E r \in lf.net, resp \in MutationResponses :
        /\ r.form = which
        /\ lf' = [Quiet(lf, FormEvent("resp", r.form, <<>>, <<>>)) EXCEPT
                    !.net = lf.net \ {r},
                    !.output = LoyaltyOutcome(r.form, resp)]
    /\ UNCHANGED <<theme, dash, chart>>
    /\ UNCHANGED pageVars

ProfileResp == LoyaltyResp("profile")
PurchaseResp == LoyaltyResp("purchase")
RedeemResp == LoyaltyResp("redeem")
ReferralResp == LoyaltyResp("referral")

(***************************************************************************)
(* The page after the DOMContentLoaded handler has run.                    *)
(***************************************************************************)
InitCustomers ==
    /\ path = "/customers"
    /\ modalDisplay = "none"
    /\ modalTitle = ""
    /\ form = EmptyForm
    /\ tableBody = <<LoadingRow>>
    /\ net = {IssueLoad(1)}
    /\ nreq = 1
    /\ ticketList = <<>>
    /\ ticketStatus = NoTicketStatus
    /\ tform = ResetTicketForm(<<>>)
    /\ selectOptions = <<>>

InitTickets ==
    /\ path = "/tickets"
    /\ modalDisplay = "none"
    /\ modalTitle = ""
    /\ form = EmptyForm
    /\ tableBody = <<>>
    /\ ticketList = <<LoadingItem>>
    /\ ticketStatus = NoTicketStatus
    /\ tform = ResetTicketForm(<<>>)
    /\ selectOptions = <<Option(<<>>, <<"Loading customers...">>)>>
    /\ net = {IssuePopulate(1), IssueTicketLoad(2)}
    /\ nreq = 2

Init ==
    /\ InitCustomers \/ InitTickets
    /\ alert = <<>>
    /\ confirm = "none"
    /\ answered = NoAnswer
    /\ submitted = FALSE
    /\ shown = [done |-> FALSE, ok |-> FALSE, items |-> <<>>]
    /\ latestOk = [rid |-> 0, items |-> <<>>]
    /\ theme = Startup(Null)
    /\ dash = DashIdle
    /\ chart = FreshWindow(FALSE, FALSE)
    /\ lf = FormsStart

Next ==
    \/ AddClick
    \/ CloseClick
    \/ ModalClick
    \/ UserTypes
    \/ SubmitForm
    \/ SubmitResp
    \/ TableClickOther
    \/ DeleteClick
    \/ DeleteResp
    \/ EditClick
    \/ EditResp
    \/ LoadResp
    \/ PopulateResp
    \/ TicketLoadResp
    \/ UserSelectsCustomer
    \/ UserTypesIssue
    \/ UserSelectsPriority
    \/ TicketSubmit
    \/ TicketSubmitResp

Spec == Init /\ [][Next]_vars

(***************************************************************************)
(* The dashboard: theme and sidebar toggles, the three fetchers, reloads.  *)
(***************************************************************************)
\* the customers and tickets managers before they have done anything
PageIdle(p) ==
    /\ path = p
    /\ modalDisplay = "none"
    /\ modalTitle = ""
    /\ form = EmptyForm
    /\ tableBody = <<>>
    /\ net = {}
    /\ nreq = 0
    /\ ticketList = <<>>
    /\ ticketStatus = NoTicketStatus
    /\ tform = ResetTicketForm(<<>>)
    /\ selectOptions = <<>>
    /\ alert = <<>>
    /\ confirm = "none"
    /\ answered = NoAnswer
    /\ submitted = FALSE
    /\ shown = [done |-> FALSE, ok |-> FALSE, items |-> <<>>]
    /\ latestOk = [rid |-> 0, items |-> <<>>]

\* the user reloads the dashboard: a new document and a new window, the same
\* markup, the same localStorage
Reload ==
    /\ path = "/"
    /\ theme' = [Startup(theme.stored) EXCEPT !.last = "reload"]
    /\ dash' = DashStart
    /\ chart' = FreshWindow(chart.lib, chart.canvas)
    /\ UNCHANGED lf
    /\ UNCHANGED pageVars

\* whether the markup defines window.Chart and holds #resolution-chart is not
\* decided by the script: both cases are taken
InitDash ==
    /\ PageIdle("/")
    /\ theme \in {Startup(stored) : stored \in StoredThemes}
    /\ dash = DashStart
    /\ chart \in {FreshWindow(lib, canvas) : lib \in BOOLEAN, canvas \in BOOLEAN}
    /\ lf = FormsStart

NextDash ==
    \/ ThemeToggleClick
    \/ SidebarToggleClick
    \/ Reload
    \/ KpisResp
    \/ OpenResp
    \/ MetricsResp

SpecDash == InitDash /\ [][NextDash]_vars

(***************************************************************************)
(* The chart functions under arbitrary calls.                              *)
(***************************************************************************)
InitChart ==
    /\ PageIdle("/")
    /\ theme = Startup(Null)
    /\ dash = DashIdle
    /\ chart \in {FreshWindow(lib, canvas) : lib \in BOOLEAN, canvas \in BOOLEAN}
    /\ lf = FormsStart

NextChart ==
    \/ RenderCall
    \/ LoadCall
    \/ ScriptLoaded
    \/ ScriptFailed

SpecChart == InitChart /\ [][NextChart]_vars

(***************************************************************************)
(* The leads & loyalty forms.                                              *)
(***************************************************************************)
InitForms ==
    /\ PageIdle("/customers")
    /\ theme = Startup(Null)
    /\ dash = DashIdle
    /\ chart = FreshWindow(FALSE, FALSE)
    /\ lf = FormsStart

NextForms ==
    \/ UserTypesLead
    \/ LeadSubmit
    \/ LeadResp
    \/ ProfileSubmit
    \/ PurchaseSubmit
    \/ RedeemSubmit
    \/ ReferralSubmit
    \/ ProfileResp
    \/ PurchaseResp
    \/ RedeemResp
    \/ ReferralResp

SpecForms == InitForms /\ [][NextForms]_vars

(***************************************************************************)
(* The customers page loading its list from a server whose records hold    *)
(* arbitrary short texts: the specification of the escaping check.         *)
(***************************************************************************)
LoadEscape == LoadCustomersResp(EscapeLists)

InitEscape ==
    /\ InitCustomers
    /\ theme = Startup(Null)
    /\ dash = DashIdle
    /\ chart = FreshWindow(FALSE, FALSE)
    /\ lf = FormsStart
    /\ alert = <<>>
    /\ confirm = "none"
    /\ answered = NoAnswer
    /\ submitted = FALSE
    /\ shown = [done |-> FALSE, ok |-> FALSE, items |-> <<>>]
    /\ latestOk = [rid |-> 0, items |-> <<>>]

NextEscape == LoadEscape

SpecEscape == InitEscape /\ [][NextEscape]_vars

(***************************************************************************)
(* Claims.                                                                 *)
(***************************************************************************)
LoadsInFlight == {r \in net : r.kind \in {"load", "tload"}}

\* the rows a full replacement render of a customer list consists of
RowsOf(items) ==
    IF items = <<>> THEN <<NoCustomersRow>>
    ELSE [i \in 1..Len(items) |-> CustomerRow(items[i])]

\* the items a full replacement render of a ticket list consists of
ItemsOf(items) ==
    IF items = <<>> THEN <<NoTicketsItem>>
    ELSE [i \in 1..Len(items) |-> TicketItem(items[i])]

\* what the page displays is exactly the render of the list `items`
Displays(items) ==
    /\ path = "/customers" => tableBody = RowsOf(items)
    /\ path = "/tickets" => ticketList = ItemsOf(items)

\* C1 as stated: once every outstanding list load has completed, a list that
\* shows the rows of a successful fetch shows those of the most recently
\* issued successful load, never those of an older fetch.
C1_LatestIssuedWins ==
    (LoadsInFlight = {} /\ shown.done /\ shown.ok) => Displays(latestOk.items)

\* C1 amended: the customer table always, and the ticket list once every
\* outstanding list load has completed, is the full replacement render of the
\* one response that was processed last (last write wins): its rows in list
\* order, the placeholder for an empty list, or the error row when that load
\* failed; it is never a merge of two responses, but it can be an older fetch
\* than the most recently issued one.
C1_LastResponseWins ==
    /\ (path = "/customers" /\ shown.done) =>
          tableBody = IF shown.ok THEN RowsOf(shown.items) ELSE <<ErrorRow>>
    /\ (path = "/tickets" /\ shown.done /\ LoadsInFlight = {}) =>
          ticketList = IF shown.ok THEN ItemsOf(shown.items) ELSE <<ErrorItem>>

\* two overlapping loads have completed out of order: the list shows the
\* older fetch
C1_Witness ==
    /\ LoadsInFlight = {}
    /\ shown.done /\ shown.ok
    /\ shown.items # latestOk.items
    /\ shown.items # <<>> /\ latestOk.items # <<>>

\* a response with a 2xx status
Ok2xx(resp) == resp.type = "http" /\ resp.ok

ModalState ==
    IF modalDisplay = "none" THEN "closed"
    ELSE IF Truthy(form.id) THEN "editing-existing" ELSE "editing-new"

\* C2: the modal enters editing-new only from closed, by the Add button; it
\* enters editing-existing for id X only from closed, on a successful answer
\* to GET /api/customer/X; it returns to closed only by the close button, an
\* overlay click or a successful submit; a failed edit fetch raises an alert
\* and leaves the modal and the form as they were.
C2_ModalStateMachine ==
    [][ /\ (ModalState' = "editing-new" /\ ModalState # "editing-new")
            => (ModalState = "closed" /\ AddClick)
        /\ (ModalState' = "editing-existing"
              /\ (ModalState # "editing-existing" \/ form'.id # form.id))
            => /\ ModalState = "closed"
               /\ answered'.kind = "edit" /\ Ok2xx(answered'.resp)
               /\ \E r \in net \ net' : r.kind = "edit" /\ r.urlId = form'.id
        /\ (ModalState' = "closed" /\ ModalState # "closed")
            => \/ CloseClick
               \/ ModalClick
               \/ (answered'.kind = "submit" /\ Ok2xx(answered'.resp))
        /\ (answered'.kind = "edit"
              /\ ~(Ok2xx(answered'.resp) /\ ~ParseFails(answered'.resp)))
            => /\ alert' = <<"Could not load customer data.">>
               /\ UNCHANGED <<modalDisplay, modalTitle, form>>
      ]_vars

\* C3: every submit of the customer form issues exactly one request, PUT
\* /api/customer/{id} when the hidden id is non-empty at submit time and POST
\* /api/customer otherwise, with the payload {name, email, phone, company}
\* read from the form fields.
C3_SubmitIssuesOneRequest ==
    [][ (submitted' /\ path = "/customers") =>
          \E r \in net' \ net :
            /\ net' = net \cup {r}
            /\ r.method = (IF form.id # <<>> THEN "PUT" ELSE "POST")
            /\ r.url = (IF form.id # <<>> THEN "/api/customer/" ELSE "/api/customer")
            /\ r.urlId = form.id
            /\ r.body = [name |-> form.name, email |-> form.email,
                         phone |-> form.phone, company |-> form.company]
      ]_vars

\* an update of customer 1 or 2 has just been submitted
C3_Witness ==
    /\ submitted /\ path = "/customers"
    /\ \E r \in net : r.rid = nreq /\ r.method = "PUT" /\ r.body.name = <<"b">>

SuccessAlert(method) ==
    IF method = "PUT" THEN <<"Customer updated!">> ELSE <<"Customer created!">>

\* the step handles a 2xx answer to a create or update and, doing so, issues
\* one new GET /api/customers
SubmitSucceeds ==
    /\ answered'.kind = "submit" /\ Ok2xx(answered'.resp)
    /\ alert' = SuccessAlert(answered'.method)
    /\ modalDisplay' = "none"
    /\ nreq' = nreq + 1
    /\ net' \ net = {IssueLoad(nreq')}

\* C4 as stated: on a 2xx answer to a create or update the confirmation is
\* shown, the whole form (hidden id included) is cleared, the modal is closed
\* and a new GET /api/customers is issued by that step.
C4_FormFullyCleared ==
    [][ (answered'.kind = "submit" /\ Ok2xx(answered'.resp))
          => (SubmitSucceeds /\ form' = EmptyForm) ]_vars

\* C4 amended: on a 2xx answer to a create or update the confirmation is
\* shown ('Customer created!' for a POST, 'Customer updated!' for a PUT), the
\* four visible fields are cleared while the hidden id keeps its value, the
\* modal is closed and a new GET /api/customers is issued by that step.
C4_VisibleFieldsCleared ==
    [][ (answered'.kind = "submit" /\ Ok2xx(answered'.resp))
          => (SubmitSucceeds /\ form' = [EmptyForm EXCEPT !.id = form.id]) ]_vars

\* an update has just succeeded: the form is reset, the id is still there
C4_Witness ==
    /\ answered.kind = "submit" /\ Ok2xx(answered.resp)
    /\ alert = <<"Customer updated!">>
    /\ Truthy(form.id) /\ form.name = <<>>
    /\ IssueLoad(nreq) \in net

\* C5: on a failed create or update (non-2xx status, unparsable error body or
\* network error) an error alert is raised and the step changes neither the
\* modal nor any form field (hidden id included) and issues no request.
C5_FailureKeepsForm ==
    [][ (answered'.kind = "submit" /\ ~Ok2xx(answered'.resp)) =>
          /\ alert' # <<>>
          /\ alert' \notin {<<"Customer updated!">>, <<"Customer created!">>}
          /\ UNCHANGED <<modalDisplay, modalTitle, form, tableBody, nreq>>
          /\ net' \subseteq net
      ]_vars

\* an update was refused by the server: the modal is open with what was typed
C5_Witness ==
    /\ answered.kind = "submit" /\ ~Ok2xx(answered.resp)
    /\ answered.resp.body.error = <<"has open tickets">>
    /\ modalDisplay = "flex"
    /\ Truthy(form.id) /\ form.name = <<"b">>

\* C6: a DELETE /api/customer/{id} is issued only in a step in which the user
\* confirmed, for the id of a Delete button of the table; a declined
\* confirmation issues nothing and changes nothing; a 2xx answer issues the
\* list reload; a non-2xx answer with body {error: m} raises the alert
\* 'Error: m' and issues no reload.
C6_DeleteProtocol ==
    [][ /\ \A r \in net' \ net : r.method = "DELETE" =>
              /\ confirm' = "yes"
              /\ r.url = "/api/customer/"
              /\ \E i \in 1..Len(tableBody) : tableBody[i].deleteId = r.urlId
        /\ confirm' = "no" => UNCHANGED <<custVars, net, nreq>>
        /\ (answered'.kind = "delete" /\ Ok2xx(answered'.resp))
              => (nreq' = nreq + 1 /\ net' \ net = {IssueLoad(nreq')})
        /\ (answered'.kind = "delete" /\ ~Ok2xx(answered'.resp)
              /\ answered'.resp.type = "http" /\ Truthy(answered'.resp.body.error))
              => /\ alert' = <<"Error: ">> \o answered'.resp.body.error
                 /\ nreq' = nreq /\ net' \subseteq net
      ]_vars

\* a confirmed delete was refused with {error: "has open tickets"}
C6_Witness ==
    /\ answered.kind = "delete"
    /\ alert = <<"Error: ", "has open tickets">>
    /\ LoadsInFlight = {}

\* C7: after every completed load of the customer list the table holds
\* exactly one row per customer of the returned list, in list order, or the
\* single 'No customers found.' row for an empty list, or the single error
\* row for a failed fetch, whatever it held before.
C7_OneRowPerCustomer ==
    answered.kind = "load" =>
        IF ~shown.ok THEN tableBody = <<ErrorRow>>
        ELSE IF shown.items = <<>> THEN tableBody = <<NoCustomersRow>>
        ELSE /\ Len(tableBody) = Len(shown.items)
             /\ \A i \in 1..Len(tableBody) :
                  /\ tableBody[i].kind = "customer"
                  /\ tableBody[i].editId = shown.items[i].id
                  /\ tableBody[i].deleteId = shown.items[i].id
                  /\ tableBody[i].name = escapeHTML(shown.items[i].name)

\* a reload has rendered two customers over the rows of an earlier load
C7_Witness ==
    /\ answered.kind = "load" /\ shown.ok
    /\ Len(shown.items) = 2 /\ shown.items[1] # shown.items[2]
    /\ nreq >= 3 /\ net = {}

\* whether text s starts with text p
HasPrefix(s, p) == Len(s) >= Len(p) /\ SubSeq(s, 1, Len(p)) = p

\* markup in which no special character is raw: each one is the ampersand
\* that opens one of the five entities
NoRawSpecial(out) ==
    \A i \in 1..Len(out) :
        out[i] \in SpecialChars =>
            /\ out[i] = "&"
            /\ \E c \in SpecialChars : HasPrefix(SubSeq(out, i, Len(out)), Entity(c))

RECURSIVE Decode(_)
\* the text a browser shows for markup out: entities back to their characters
Decode(out) ==
    IF out = <<>> THEN <<>>
    ELSE IF \E c \in SpecialChars : HasPrefix(out, Entity(c))
         THEN LET c == CHOOSE d \in SpecialChars : HasPrefix(out, Entity(d))
              IN  <<c>> \o Decode(SubSeq(out, Len(Entity(c)) + 1, Len(out)))
         ELSE <<Head(out)>> \o Decode(Tail(out))

\* markup out shows text v literally
ShowsLiterally(out, v) == NoRawSpecial(out) /\ Decode(out) = v

\* the customer rows of the table
CustomerRows == {i \in 1..Len(tableBody) : tableBody[i].kind = "customer"}

\* C8: in every rendered customer row, each interpolated field (name, email,
\* phone, company, and the id of the two data-id attributes) has its special
\* characters replaced by their entities: no raw & < > " ' of a field value
\* reaches the row markup, and the markup shows the field value literally.
C8_RowsEscaped ==
    answered.kind = "load" =>
        \A i \in CustomerRows :
            /\ ShowsLiterally(tableBody[i].name, OrEmpty(shown.items[i].name))
            /\ ShowsLiterally(tableBody[i].email, OrEmpty(shown.items[i].email))
            /\ ShowsLiterally(tableBody[i].phone, OrEmpty(shown.items[i].phone))
            /\ ShowsLiterally(tableBody[i].company, OrEmpty(shown.items[i].company))
            /\ ShowsLiterally(tableBody[i].editId, Str(shown.items[i].id))
            /\ ShowsLiterally(tableBody[i].deleteId, Str(shown.items[i].id))

\* C8, the part the code keeps: the four cells of a customer row are escaped
C8_CellsEscaped ==
    answered.kind = "load" =>
        \A i \in CustomerRows :
            /\ ShowsLiterally(tableBody[i].name, OrEmpty(shown.items[i].name))
            /\ ShowsLiterally(tableBody[i].email, OrEmpty(shown.items[i].email))
            /\ ShowsLiterally(tableBody[i].phone, OrEmpty(shown.items[i].phone))
            /\ ShowsLiterally(tableBody[i].company, OrEmpty(shown.items[i].company))

\* a row was rendered for a customer whose name holds two special characters
C8_Witness ==
    /\ answered.kind = "load"
    /\ CustomerRows # {}
    /\ shown.items[1].name = <<"<", "&">>
    /\ tableBody[1].name = <<"&", "l", "t", ";", "&", "a", "m", "p", ";">>

\* a text that is empty or holds whitespace only
WhitespaceOnly(s) == \A i \in 1..Len(s) : s[i] \in Whitespace

\* the requests the step issues
Issued == net' \ net

\* the step is the submit handler of the ticket form
TicketSubmitStep == path = "/tickets" /\ submitted'

\* the step issues nothing and sets the status line to the error text
RejectedWith(text) ==
    /\ Issued = {} /\ nreq' = nreq
    /\ ticketStatus' = TicketStatus(<<text>>, TRUE)

\* a POST /api/tickets is issued only by a submit with a customer selected
\* and an issue text that is not empty after trimming
PostOnlyWhenValid ==
    \A r \in Issued :
        (r.method = "POST" /\ r.url = "/api/tickets") =>
            /\ TicketSubmitStep
            /\ Truthy(tform.customer)
            /\ ~WhitespaceOnly(tform.issue)

\* C9 as stated: every submit of the ticket form whose issue text is empty or
\* whitespace-only, whatever the customer selection, issues no request and
\* sets the status to 'Issue description is required.'; a POST /api/tickets
\* is issued only when a customer is selected and the trimmed issue text is
\* not empty.
C9_IssueRequiredWhateverCustomer ==
    [][ /\ (TicketSubmitStep /\ WhitespaceOnly(tform.issue))
              => RejectedWith("Issue description is required.")
        /\ PostOnlyWhenValid
      ]_vars

\* C9, as the handler validates: the customer is tested first.  A submit with
\* no customer selected issues no request and sets the status to 'Please
\* select a customer.', whatever the issue text; a submit with a customer
\* selected and an empty or whitespace-only issue issues no request and sets
\* the status to 'Issue description is required.'; a POST /api/tickets is
\* issued only when a customer is selected and the trimmed issue text is not
\* empty.
C9_ValidationOrder ==
    [][ /\ (TicketSubmitStep /\ ~Truthy(tform.customer))
              => RejectedWith("Please select a customer.")
        /\ (TicketSubmitStep /\ Truthy(tform.customer) /\ WhitespaceOnly(tform.issue))
              => RejectedWith("Issue description is required.")
        /\ PostOnlyWhenValid
      ]_vars

\* the form was submitted with a customer selected and a whitespace-only
\* issue text, and was rejected
C9_Witness ==
    /\ path = "/tickets" /\ submitted
    /\ Truthy(tform.customer)
    /\ tform.issue = <<" ", "\n">>
    /\ ticketStatus = TicketStatus(<<"Issue description is required.">>, TRUE)

\* the step is a submit of the ticket form that passes the validation
ValidTicketSubmit ==
    TicketSubmitStep /\ Truthy(tform.customer) /\ ~WhitespaceOnly(tform.issue)

\* the step issues exactly one POST /api/tickets with {customer_id, issue, priority}
IssuesOneTicketPost ==
    /\ nreq' = nreq + 1
    /\ Issued = {Request(nreq', "tsubmit", "POST", "/api/tickets", <<>>,
                         [customer_id |-> tform.customer, issue |-> Trim(tform.issue),
                          priority |-> tform.priority])}

\* the success path of the ticket submit: the id in the status line, the form
\* reset with priority 'Medium', one GET /api/tickets issued by this step
TicketSuccessPath ==
    /\ ticketStatus' = TicketStatus(<<"Ticket created! ID: ">>
                                    \o Str(answered'.resp.body.ticket_id), FALSE)
    /\ tform' = [customer |-> <<>>, issue |-> <<>>, priority |-> <<"Medium">>]
    /\ nreq' = nreq + 1
    /\ Issued = {IssueTicketLoad(nreq')}

\* the response of fetch resolved and its body parsed as JSON
BodyParsed(resp) == resp.type = "http" /\ resp.body.kind # "unparsable"

\* an error message in the status line: the server's error text when the
\* response carries one, the generic fallback when its body carries none
ShowsTicketError(resp) ==
    /\ ticketStatus'.isError
    /\ Len(ticketStatus'.text) = 2
    /\ ticketStatus'.text[1] = "Error creating ticket: "
    /\ BodyParsed(resp) =>
          ticketStatus'.text[2] = OrElse(resp.body.error, <<"Failed to create ticket">>)[1]

\* C10 as stated: a valid ticket submit issues exactly one POST /api/tickets
\* with {customer_id, issue, priority}; a 2xx response shows the ticket id,
\* resets the form with priority 'Medium' and issues GET /api/tickets; any
\* other outcome shows an error message (the server's error text or the
\* generic fallback) and issues no reload; either way 'Creating ticket...'
\* is replaced when the response arrives.
C10_SuccessOn2xx ==
    [][ /\ ValidTicketSubmit => IssuesOneTicketPost
        /\ answered'.kind = "tsubmit" =>
              /\ IF Ok2xx(answered'.resp)
                 THEN TicketSuccessPath
                 ELSE /\ ShowsTicketError(answered'.resp)
                      /\ Issued = {} /\ nreq' = nreq
              /\ ticketStatus'.text # <<"Creating ticket...">>
      ]_vars

\* C10, as the handler behaves: the body is parsed before the status is
\* tested.  A valid submit issues exactly one POST /api/tickets; a 2xx
\* response whose body parses as JSON shows the ticket id, resets the form with
\* priority 'Medium' and issues GET /api/tickets; a non-2xx response whose
\* body parses shows 'Error creating ticket: ' followed by the server's error
\* text or by 'Failed to create ticket'; a network failure or a body that does
\* not parse, 2xx included, shows 'Error creating ticket: ' followed by the
\* message of the exception; no error path resets the form or issues a
\* reload; either way 'Creating ticket...' is replaced.
C10_SuccessOnParsed2xx ==
    [][ /\ ValidTicketSubmit => IssuesOneTicketPost
        /\ answered'.kind = "tsubmit" =>
              /\ IF BodyParsed(answered'.resp) /\ answered'.resp.ok
                 THEN TicketSuccessPath
                 ELSE /\ ShowsTicketError(answered'.resp)
                      /\ tform' = tform
                      /\ Issued = {} /\ nreq' = nreq
              /\ ticketStatus'.text # <<"Creating ticket...">>
      ]_vars

\* a ticket was created: the id is in the status line, the priority is back
\* to 'Medium' although the user had picked another one, the reload is in flight
C10_Witness ==
    /\ answered.kind = "tsubmit"
    /\ ticketStatus = TicketStatus(<<"Ticket created! ID: ", "t7">>, FALSE)
    /\ tform.priority = <<"Medium">>
    /\ ticketList = <<LoadingItem>>
    /\ \E r \in net : r.kind = "tload" /\ r.rid = nreq

\* C11: no failure of an operation that issues a request (network rejection,
\* non-2xx status, unparsable body) leaves the operation as an uncaught
\* exception or an unhandled promise rejection.
C11_NoFailureEscapes == ~lf.uncaught

\* a failure of a loyalty form has ended in the error block of the panel
C11_Witness ==
    /\ lf.last.kind = "resp" /\ lf.last.form \in LoyaltyForms
    /\ lf.output.isError
    /\ ~lf.uncaught

\* the step is the submit handler of one of the forms
FormSubmitStep == lf'.last.kind = "submit"

\* the requests of the forms the step issues
FormIssued == lf'.net \ lf.net

\* the step issues nothing, raises no alert and leaves the panel as it was
SilentNoOp ==
    /\ FormIssued = {} /\ lf'.nreq = lf.nreq
    /\ lf'.alert = <<>>
    /\ lf'.output = lf.output
    /\ lf'.uncaught = lf.uncaught

\* every required field of the submitted form holds some text
AllFilled ==
    IF lf'.last.form = "lead"
    THEN lf.lead.name # <<>> /\ lf.lead.email # <<>> /\ lf.lead.source # <<>>
    ELSE /\ lf'.last.customer # <<>>
         /\ lf'.last.form # "profile" => lf'.last.second # <<>>

\* C19 as stated: each of the five form handlers issues its request only when
\* all of its required fields are non-empty; a submit with a required field
\* missing issues no request, shows no error and leaves the panel unchanged.
C19_RequestOnlyWhenFilled ==
    [][ FormSubmitStep =>
          /\ FormIssued # {} => AllFilled
          /\ ~AllFilled => SilentNoOp
      ]_vars

\* what the loyalty handlers accept: a customer id that is not blank, and for
\* the purchase and redeem forms a non-empty second field, for the referral
\* form a second field that is not blank
Accepted ==
    /\ ~WhitespaceOnly(lf'.last.customer)
    /\ lf'.last.form \in {"purchase", "redeem"} => lf'.last.second # <<>>
    /\ lf'.last.form = "referral" => ~WhitespaceOnly(lf'.last.second)

\* C19, as the handlers validate: each of the four loyalty handlers issues
\* exactly one request when its customer id is not blank and its second field
\* is present (amount and points non-empty as typed, referral code not
\* blank), and otherwise issues nothing, shows nothing and leaves the panel
\* unchanged; the lead handler tests nothing and issues its POST /api/lead on
\* every submit.
C19_LoyaltyFormsValidate ==
    [][ FormSubmitStep =>
          IF lf'.last.form = "lead"
          THEN \E r \in FormIssued :
                  /\ FormIssued = {r}
                  /\ r.method = "POST" /\ r.url = <<"/api/lead">>
          ELSE IF Accepted
               THEN \E r \in FormIssued :
                       /\ FormIssued = {r}
                       /\ r.form = lf'.last.form
                       /\ lf'.output = lf.output
               ELSE SilentNoOp
      ]_vars

\* the purchase form was submitted with a customer and no amount, after an
\* earlier result had been shown: nothing was issued
C19_Witness ==
    /\ lf.last = FormEvent("submit", "purchase", <<"7", " ", "x">>, <<>>)
    /\ lf.net = {}
    /\ lf.output.text # <<>>


(***************************************************************************)
(* Dashboard claims.                                                       *)
(***************************************************************************)
\* the step in which the fetcher f handles its response
FetcherStep(f) == f \in dash.pending /\ dash'.pending = dash.pending \ {f}

\* a fetch that failed: the network failed or the status is not 2xx
FetchFailed(resp) == resp.type = "neterr" \/ (resp.type = "http" /\ ~resp.ok)

\* C12: a dashboard fetcher whose fetch failed (non-2xx status or network
\* error) writes its error literal into its own slot and changes no other
\* slot: 'Error' in the new-customers slot (total untouched), 'Error' in the
\* open-tickets slot, 'Err' in the metrics slot.
C12_FailureWritesOwnLiteral ==
    [][\A f \in Fetchers :
         FetcherStep(f) /\ FetchFailed(dash'.got[f]) =>
            /\ dash'.total = dash.total
            /\ dash'.newc = IF f = "kpis" THEN ErrorText ELSE dash.newc
            /\ dash'.open = IF f = "open" THEN ErrorText ELSE dash.open
            /\ dash'.avg = IF f = "metrics" THEN ErrText ELSE dash.avg]_vars

\* C12, as the code has it: the customer and the open-tickets fetchers fail on
\* a network error, a non-2xx status or an unparsable body; the metrics
\* fetcher fails on whatever makes its try block throw, and never on the status
C12_FailureAsHandled ==
    [][\A f \in Fetchers :
         FetcherStep(f)
         /\ (IF f = "metrics"
             THEN MetricsFailed(dash'.got[f]) \/ (chart.canvas /\ ~chart.lib)
             ELSE Failed(dash'.got[f])) =>
            /\ dash'.total = dash.total
            /\ dash'.newc = IF f = "kpis" THEN ErrorText ELSE dash.newc
            /\ dash'.open = IF f = "open" THEN ErrorText ELSE dash.open
            /\ dash'.avg = IF f = "metrics" THEN ErrText ELSE dash.avg]_vars

\* C12 witness: the customer KPI fetch got a non-2xx answer after the open
\* tickets were counted: 'Error' in the new-customers slot, the total still
\* loading, the count still shown
C12_Witness ==
    /\ dash.last = "kpis"
    /\ dash.got["kpis"] = DHttp(FALSE, DObject)
    /\ dash.newc = ErrorText
    /\ dash.total = LoadingText
    /\ dash.open = <<"1">>

\* the metrics GET succeeded with a numeric avg_resolution_hours
MetricsSucceeded(d) ==
    /\ "metrics" \notin d.pending
    /\ d.got["metrics"].type = "http"
    /\ d.got["metrics"].ok
    /\ d.got["metrics"].body.kind = "object"
    /\ d.got["metrics"].body.avg_resolution_hours # Missing

\* C13: after a metrics GET that succeeded with a numeric
\* avg_resolution_hours the metrics slot shows the value to one decimal place
\* followed by ' hrs', whatever the chart render did.
C13_SlotIndependentOfChart ==
    MetricsSucceeded(dash) =>
        dash.avg = ToFixed1(dash.got["metrics"].body.avg_resolution_hours) \o <<" hrs">>

\* C13 witness: 11.96 hours shown as '12.0 hrs', no canvas to render on
C13_Witness ==
    /\ MetricsSucceeded(dash)
    /\ dash.got["metrics"].body.avg_resolution_hours = 1196
    /\ ~chart.canvas
    /\ dash.avg = <<"1", "2", ".", "0", " hrs">>

\* the slots of the dashboard
Slots(d) == [total |-> d.total, newc |-> d.newc, open |-> d.open, avg |-> d.avg]

\* the three fetchers run one after the other, in the order they are started
InStartOrder(got, lib, canvas) ==
    LET d1 == fetchCustomerKPIs(DashStart, got["kpis"])
        d2 == fetchOpenTickets(d1, got["open"])
    IN  fetchTicketMetrics(d2, FreshWindow(lib, canvas), got["metrics"])

\* C14: once the three fetchers have completed, the slots and the chart are
\* what the same responses give when they arrive in the order the fetchers
\* were started: the order of arrival does not matter.
C14_ArrivalOrderIrrelevant ==
    dash.pending = {} /\ path = "/" =>
        LET inOrder == InStartOrder(dash.got, chart.lib, chart.canvas)
        IN  /\ Slots(dash) = Slots(inOrder.dash)
            /\ chart.live = inOrder.chart.live
            /\ chart.destroys = inOrder.chart.destroys

\* C14 witness: the metrics arrived first, the customer KPIs last, and the
\* open tickets failed in between
C14_Witness ==
    /\ dash.pending = {}
    /\ path = "/"
    /\ dash.last = "kpis"
    /\ dash.got["open"] = DNetErr
    /\ dash.open = ErrorText
    /\ dash.total = <<"3">>
    /\ dash.avg = <<"2", ".", "3", " hrs">>

\* C15: on the dashboard the construction of a chart is never reached while
\* the Chart global is absent (the loader has run and resolved before the
\* first render).
C15_ConstructedAfterLoad == chart.refErrors = 0

\* C15 witness: a chart constructed with the Chart global defined by the
\* page, the loader never called
C15_Witness ==
    /\ path = "/"
    /\ chart.made = 1
    /\ chart.live = {1}
    /\ chart.lib
    /\ chart.calls = 0


(***************************************************************************)
(* Chart claims.                                                           *)
(***************************************************************************)
\* a step that is one call of renderResolutionChart
RenderStep == chart'.renders = chart.renders + 1

\* the call destroyed the prior instance once, if there was one, and nothing else
DestroyedPriorOnce ==
    \A i \in ChartIds :
        chart'.destroys[i] = chart.destroys[i] + (IF i = chart.handle THEN 1 ELSE 0)

\* the call created exactly one instance, which is now the live one
CreatedOne ==
    /\ chart'.made = chart.made + 1
    /\ chart'.handle = chart'.made
    /\ chart'.live = {chart'.made}

\* the call changed nothing of the window
ChangedNothing ==
    /\ chart'.handle = chart.handle
    /\ chart'.made = chart.made
    /\ chart'.live = chart.live
    /\ chart'.destroys = chart.destroys
    /\ chart'.refErrors = chart.refErrors

\* at most one instance is live, and no instance was destroyed twice
OneLiveChart ==
    /\ Cardinality(chart.live) <= 1
    /\ \A i \in ChartIds : chart.destroys[i] <= 1

\* C16: each call of renderResolutionChart with the canvas present destroys
\* the prior instance exactly once when there is one and creates exactly one
\* instance; at most one instance is live and none is destroyed twice; with
\* the canvas absent a call changes nothing.
C16_OneChartPerRender ==
    /\ []OneLiveChart
    /\ [][RenderStep =>
            IF chart.canvas THEN DestroyedPriorOnce /\ CreatedOne
            ELSE ChangedNothing]_vars

\* C16, as the code has it: a call with the canvas present and the Chart
\* global defined destroys the prior instance once and creates one; a call
\* with the Chart global undefined throws at the construction and creates none
C16_OneChartPerRenderWithLibrary ==
    /\ []OneLiveChart
    /\ [][RenderStep =>
            IF chart.canvas /\ chart.lib THEN DestroyedPriorOnce /\ CreatedOne
            ELSE IF chart.canvas
                 THEN chart'.made = chart.made /\ chart'.live = chart.live
                      /\ chart'.refErrors = chart.refErrors + 1
                 ELSE ChangedNothing]_vars

\* C16 witness: the second render has destroyed the first chart and made
\* the second
C16_Witness ==
    /\ chart.last = "render"
    /\ chart.made = 2
    /\ chart.live = {2}
    /\ chart.destroys[1] = 1
    /\ chart.destroys[2] = 0

\* C17: however loadChartJsIfNeeded is called, at most one loader script is
\* injected in a page lifetime, and none when the Chart global exists.
C17_LoadedOnce ==
    /\ [](chart.scripts <= 1)
    /\ [][chart'.calls = chart.calls + 1 /\ chart.lib =>
            chart'.scripts = chart.scripts]_vars

\* C17 witness: a second call made after the library has loaded injects
\* nothing
C17_Witness ==
    /\ chart.last = "load"
    /\ chart.calls = 2
    /\ chart.lib
    /\ chart.scripts = 1
    /\ chart.loading = 0


(***************************************************************************)
(* Theme claims.                                                           *)
(***************************************************************************)
\* two consecutive toggles have just been made; hist[1] is the state before
\* the first of them
ToggledTwice == theme.last = "toggle" /\ Len(theme.hist) = 2

\* the stored name of a display mode
ModeName(dark) == IF dark THEN "dark" ELSE "light"

\* C18: two consecutive toggles restore the display mode and the stored value
\* of 'theme', whatever the stored value was (absent, 'light', 'dark', other).
C18_ToggleInvolution ==
    ToggledTwice => ThemeSnapshot(theme) = theme.hist[1]

\* C18, as the code has it: two consecutive toggles restore the display
\* mode and leave the name of that mode in storage; the stored value is
\* restored when it was 'light' or 'dark', and replaced when it was absent or
\* anything else
C18_ToggleRestoresMode ==
    ToggledTwice =>
        /\ theme.dark = theme.hist[1].dark
        /\ theme.stored = ModeName(theme.hist[1].dark)
        /\ (theme.hist[1].stored \in {"light", "dark"} =>
                theme.stored = theme.hist[1].stored)

\* C18 witness: two toggles from a page whose stored theme was 'blue'
C18_Witness ==
    /\ ToggledTwice
    /\ theme.hist[1] = [dark |-> FALSE, stored |-> "blue"]
    /\ theme.hist[2] = [dark |-> TRUE, stored |-> "dark"]
    /\ ThemeSnapshot(theme) = [dark |-> FALSE, stored |-> "light"]

\* C20: dark mode is displayed iff the stored 'theme' is 'dark'; a reload
\* restores the mode displayed last; a toggle writes 'light' or 'dark'; a
\* sidebar toggle changes neither the mode nor the stored value.
C20_ThemeMatchesStorage ==
    /\ [](theme.dark <=> theme.stored = "dark")
    /\ [][/\ theme'.last = "reload" => theme'.dark = theme.dark
          /\ theme'.last = "toggle" /\ theme' # theme =>
                /\ theme'.stored \in {"light", "dark"}
                /\ theme'.dark # theme.dark
          /\ theme'.last = "sidebar" =>
                ThemeSnapshot(theme') = ThemeSnapshot(theme)]_vars

\* C20 witness: the page was switched to dark and reloaded with the sidebar
\* open: dark again, the sidebar closed
C20_Witness ==
    /\ theme.last = "reload"
    /\ theme.dark
    /\ theme.stored = "dark"
    /\ ~theme.sidebar
    /\ dash.pending = Fetchers

====
